---- MODULE Spec2Model ----
(***************************************************************************)
(* Blogicum: the blog application's request handlers (blog/views.py), the  *)
(* query presets and foreign keys of its schema (blog/models.py), the      *)
(* pagination helper (blogicum/utils.py) and the administrative edits      *)
(* (blog/admin.py), as a state machine over the database rows.             *)
(*                                                                         *)
(* The state is the database (users, categories, posts, comments and the   *)
(* two auto-increment counters), the clock, the instant at which           *)
(* blog/views.py was imported, and the last request with its response.     *)
(* orphaned is a history variable: the posts that lost their category to   *)
(* the deletion of that category.                                          *)
(* Every request handler is one action.                                    *)
(***************************************************************************)
EXTENDS Integers, Sequences, FiniteSets, TLC

VARIABLES users, categories, posts, comments, post_seq, comment_seq,
          now, boot, resp, pg, orphaned

vars == <<users, categories, posts, comments, post_seq, comment_seq,
          now, boot, resp, pg, orphaned>>

\* The rows of the database.
db == <<users, categories, posts, comments, post_seq, comment_seq>>

\* What a request leaves alone besides the database rows it does not touch:
\* the clock, the import instant, the pagination inputs.
env == <<now, boot, pg>>

(***************************************************************************)
(* Bounds of the model.                                                    *)
(***************************************************************************)
MaxPosts == 2
MaxComments == 2
MaxTime == 2
MaxTitle == 2
MaxItems == 4
MaxPerPage == 2

\* blogicum/constants.py holds the value; the pagination claims are checked
\* for every page size in 1..MaxPerPage, so nothing rests on this number.
PAGINATE_VALUE == 10

Users == {"u1", "u2"}
ANON == "AnonymousUser"
Viewers == Users \cup {ANON}
Usernames == Users \cup {"ghost"}
Slugs == {"c1", "c2"}
NULL == "NULL"
PostPks == 1..MaxPosts
CommentPks == 1..MaxComments
Times == 0..MaxTime
Titles == 1..MaxTitle
Methods == {"GET", "POST"}

(***************************************************************************)
(* Schema (blog/models.py).                                                *)
(***************************************************************************)
Post(author, title, pub_date, category, is_published) ==
    [author |-> author, title |-> title, pub_date |-> pub_date,
     category |-> category, is_published |-> is_published]

Comment(post, author, text) ==
    [post |-> post, author |-> author, text |-> text]

Category(is_published) == [is_published |-> is_published]

is_authenticated(user) == user \in Users

\* Faulty variant of SetNullCategory: on_delete=CASCADE, the referencing rows go.
SetNullCategoryCascade(slug) ==
    [pk \in {p \in DOMAIN posts : posts[p].category # slug} |-> posts[pk]]

\* Post.category, on_delete=SET_NULL: the rows that referenced the deleted
\* category keep everything but the reference.
SetNullCategory(slug) ==
    [pk \in DOMAIN posts |->
        IF posts[pk].category = slug
        THEN [posts[pk] EXCEPT !.category = NULL]
        ELSE posts[pk]]

\* Comment.post, on_delete=CASCADE: the comments that survive the deletion
\* of post pk.
CascadeComments(pk) ==
    [c \in {k \in DOMAIN comments : comments[k].post # pk} |-> comments[c]]

(***************************************************************************)
(* Managers (blog/models.py).                                              *)
(***************************************************************************)
\* PublishedPostsManager.get_queryset evaluated at instant t: the filter
\* is_published=True, category__is_published=True, pub_date__lt=t.
PublishedPosts(t) ==
    {pk \in DOMAIN posts :
        /\ posts[pk].is_published
        /\ posts[pk].category \in DOMAIN categories
        /\ categories[posts[pk].category].is_published
        /\ posts[pk].pub_date < t}

\* PostForeignKeyManager.get_queryset: every post.
PostsFkJoined == DOMAIN posts

\* annotate(Count('comments')).
CommentsCount(pk) == Cardinality({c \in DOMAIN comments : comments[c].post = pk})

\* order_by('-pub_date'): the explicit order_by replaces Meta.ordering, so
\* rows with equal pub_date come in an order the database chooses.
OrderByPubDate(S) ==
    {s \in [1..Cardinality(S) -> S] :
        /\ \A i, j \in 1..Cardinality(S) : i # j => s[i] # s[j]
        /\ \A i, j \in 1..Cardinality(S) :
              i < j => posts[s[i]].pub_date >= posts[s[j]].pub_date}

Annotate(s) ==
    [i \in 1..Len(s) |-> [pk |-> s[i], comments__count |-> CommentsCount(s[i])]]

\* post.comments with Comment.Meta.ordering = ('created_at',): creation
\* order is the order of the auto-increment keys.
RECURSIVE SortedSeq(_)
SortedSeq(S) ==
    IF S = {} THEN <<>>
    ELSE LET m == CHOOSE x \in S : \A y \in S : x <= y
         IN <<m>> \o SortedSeq(S \ {m})

PostComments(pk) == SortedSeq({c \in DOMAIN comments : comments[c].post = pk})

(***************************************************************************)
(* Pagination (blogicum/utils.py, django Paginator; ListView.paginate_by). *)
(* A page parameter is <<"absent", 0>>, <<"junk", 0>>, <<"last", 0>> (the   *)
(* word 'last') or <<"int", n>>.                                           *)
(***************************************************************************)
NoPage == <<"absent", 0>>

\* Paginator.num_pages with allow_empty_first_page.
NumPages(count, per_page) ==
    IF count = 0 THEN 1 ELSE (count + per_page - 1) \div per_page

\* Paginator.page(number): the slice [bottom:top] of the object list.
PageItems(objects, per_page, number) ==
    LET bottom == (number - 1) * per_page
        top == IF bottom + per_page >= Len(objects) THEN Len(objects)
               ELSE bottom + per_page
    IN [i \in 1..(top - bottom) |-> objects[bottom + i]]

\* Faulty variant of GetPageNumber: a number below 1 is taken for the first page.
GetPageNumberLowIsFirst(count, per_page, page) ==
    IF page[1] # "int" \/ page[2] < 1 THEN 1
    ELSE IF page[2] > NumPages(count, per_page)
         THEN NumPages(count, per_page)
         ELSE page[2]

\* Paginator.get_page: not an integer -> page 1; below 1 or above the last
\* page (EmptyPage) -> the last page.
GetPageNumber(count, per_page, page) ==
    IF page[1] # "int" THEN 1
    ELSE IF page[2] < 1 \/ page[2] > NumPages(count, per_page)
         THEN NumPages(count, per_page)
         ELSE page[2]

\* paginate(request, objects, num_to_show).
paginate(page, objects, num_to_show) ==
    LET n == GetPageNumber(Len(objects), num_to_show, page)
    IN [status |-> 200, number |-> n,
        items |-> PageItems(objects, num_to_show, n)]

\* ListView.paginate_queryset (paginate_by): an absent parameter is page 1,
\* the word 'last' the last page; any other parameter that is no integer, or
\* names no page, raises Http404.
ListViewPaginate(page, objects, per_page) ==
    LET n == IF page[1] = "absent" THEN 1
             ELSE IF page[1] = "last" THEN NumPages(Len(objects), per_page)
             ELSE page[2]
    IN IF page[1] = "junk" \/ n < 1 \/ n > NumPages(Len(objects), per_page)
       THEN [status |-> 404, number |-> 0, items |-> <<>>]
       ELSE [status |-> 200, number |-> n,
             items |-> PageItems(objects, per_page, n)]

(***************************************************************************)
(* Requests and responses.                                                 *)
(***************************************************************************)
NoLocation == [to |-> "", pk |-> 0, name |-> ""]
LoginUrl == [to |-> "login", pk |-> 0, name |-> ""]
PostDetailUrl(pk) == [to |-> "post_detail", pk |-> pk, name |-> ""]
ProfileUrl(username) == [to |-> "profile", pk |-> 0, name |-> username]

Request(view, method, user, post_pk, comment_pk, name, page) ==
    [view |-> view, method |-> method, user |-> user, post_pk |-> post_pk,
     comment_pk |-> comment_pk, name |-> name, page |-> page]

\* object: the post of a detail page (0: none); comments: its comments;
\* object_list: the whole listing; page: the items of the page served.
Response(req, status, location, object, comment_list, object_list, page_items) ==
    [req |-> req, status |-> status, location |-> location,
     object |-> object, comments |-> comment_list,
     object_list |-> object_list, page |-> page_items]

Ok(req) == Response(req, 200, NoLocation, 0, <<>>, <<>>, <<>>)
NotFound(req) == Response(req, 404, NoLocation, 0, <<>>, <<>>, <<>>)
Redirect(req, location) == Response(req, 302, location, 0, <<>>, <<>>, <<>>)

NoRequest == Request("", "", ANON, 0, 0, "", NoPage)


(***************************************************************************)
(* Forms (blog/forms.py): the data a valid submission carries.             *)
(***************************************************************************)
PostFormData ==
    [title : Titles, pub_date : Times, category : Slugs, is_published : BOOLEAN]

\* The category field is a choice among the existing categories.
PostFormValid(form) == form.category \in DOMAIN categories

CommentFormData == {0, 1}
ProfileFormData == {0, 1}

(***************************************************************************)
(* Read-only views (blog/views.py).                                        *)
(***************************************************************************)
\* PostListView.queryset is built when the class body runs: the manager's
\* timezone.now() is taken once, at import, and every later request reuses
\* that queryset.
PostListQueryset == PublishedPosts(boot)

PostListView(user, page) ==
    \E order \in OrderByPubDate(PostListQueryset) :
        LET req == Request("PostListView", "GET", user, 0, 0, "", page)
            objects == Annotate(order)
            p == ListViewPaginate(page, objects, PAGINATE_VALUE)
        IN /\ resp' = IF p.status = 404 THEN NotFound(req)
                      ELSE Response(req, 200, NoLocation, 0, <<>>, objects, p.items)
           /\ UNCHANGED <<db, env, orphaned>>

\* PostDetailView: the object comes from the unfiltered manager; a viewer
\* who is not its author gets it only through the published manager.
PostDetailVisible(user, post_pk) ==
    /\ post_pk \in PostsFkJoined
    /\ \/ posts[post_pk].author = user
       \/ post_pk \in PublishedPosts(now)

PostDetailResponse(user, post_pk) ==
    LET req == Request("PostDetailView", "GET", user, post_pk, 0, "", NoPage)
    IN IF PostDetailVisible(user, post_pk)
       THEN Response(req, 200, NoLocation, post_pk, PostComments(post_pk),
                     <<>>, <<>>)
       ELSE NotFound(req)

PostDetailView(user, post_pk) ==
    /\ resp' = PostDetailResponse(user, post_pk)
    /\ UNCHANGED <<db, env, orphaned>>

\* CategoryDetailView: only a published category is found; its posts come
\* from the published manager, evaluated at the request.
CategoryQueryset == {slug \in DOMAIN categories : categories[slug].is_published}

CategoryPosts(slug) == {pk \in PublishedPosts(now) : posts[pk].category = slug}

CategoryDetailView(user, slug, page) ==
    LET req == Request("CategoryDetailView", "GET", user, 0, 0, slug, page)
    IN /\ IF slug \in CategoryQueryset
          THEN \E order \in OrderByPubDate(CategoryPosts(slug)) :
                  resp' = Response(req, 200, NoLocation, 0, <<>>, Annotate(order),
                             paginate(page, Annotate(order), PAGINATE_VALUE).items)
          ELSE resp' = NotFound(req)
       /\ UNCHANGED <<db, env, orphaned>>

\* ProfileDetailView: the profile's owner sees every post of theirs, any
\* other viewer the published ones.
ProfilePosts(user, username) ==
    {pk \in (IF user = username THEN PostsFkJoined ELSE PublishedPosts(now)) :
        posts[pk].author = username}

ProfileDetailView(user, username, page) ==
    LET req == Request("ProfileDetailView", "GET", user, 0, 0, username, page)
    IN /\ IF username \in DOMAIN users
          THEN \E order \in OrderByPubDate(ProfilePosts(user, username)) :
                  resp' = Response(req, 200, NoLocation, 0, <<>>, Annotate(order),
                             paginate(page, Annotate(order), PAGINATE_VALUE).items)
          ELSE resp' = NotFound(req)
       /\ UNCHANGED <<db, env, orphaned>>

(***************************************************************************)
(* Post mutations (blog/views.py).                                         *)
(***************************************************************************)
\* PostCreateView: LoginRequiredMixin, then the form; the new post belongs
\* to the caller and the response goes to the caller's profile.
PostCreateView(user, method, form) ==
    LET req == Request("PostCreateView", method, user, 0, 0, "", NoPage)
    IN /\ post_seq < MaxPosts
       /\ IF ~is_authenticated(user)
          THEN resp' = Redirect(req, LoginUrl) /\ UNCHANGED <<posts, post_seq>>
          ELSE IF method = "GET" \/ ~PostFormValid(form)
          THEN resp' = Ok(req) /\ UNCHANGED <<posts, post_seq>>
          ELSE /\ post_seq' = post_seq + 1
               /\ posts' = (post_seq + 1 :> Post(user, form.title, form.pub_date,
                                                form.category, form.is_published))
                           @@ posts
               /\ resp' = Redirect(req, ProfileUrl(user))
       /\ UNCHANGED <<users, categories, comments, comment_seq, now, boot, pg, orphaned>>

\* Faulty variant of NotPostAuthor: only the anonymous caller is turned away.
NotPostAuthorOnlyAnonymous(user, post_pk) == ~is_authenticated(user)

\* instance.author != request.user (PostUpdateView, PostDeleteView).
NotPostAuthor(user, post_pk) == posts[post_pk].author # user

\* PostUpdateView.dispatch / PostDeleteView.dispatch: the lookup and the
\* author check come before LoginRequiredMixin.
PostOwnerDispatch(user, post_pk) ==
    IF post_pk \notin PostsFkJoined THEN "404"
    ELSE IF NotPostAuthor(user, post_pk) THEN "redirect"
    ELSE IF ~is_authenticated(user) THEN "login"
    ELSE "handle"

PostOwnerRefusal(req, d) ==
    IF d = "404" THEN NotFound(req)
    ELSE IF d = "redirect" THEN Redirect(req, PostDetailUrl(req.post_pk))
    ELSE Redirect(req, LoginUrl)

PostUpdateResponse(user, method, post_pk, form) ==
    LET req == Request("PostUpdateView", method, user, post_pk, 0, "", NoPage)
        d == PostOwnerDispatch(user, post_pk)
    IN IF d # "handle" THEN PostOwnerRefusal(req, d)
       ELSE IF method = "GET" \/ ~PostFormValid(form) THEN Ok(req)
       ELSE Redirect(req, PostDetailUrl(post_pk))

PostUpdateView(user, method, post_pk, form) ==
    /\ resp' = PostUpdateResponse(user, method, post_pk, form)
    /\ IF /\ PostOwnerDispatch(user, post_pk) = "handle"
          /\ method = "POST"
          /\ PostFormValid(form)
       THEN posts' = [posts EXCEPT ![post_pk] =
                         Post(@.author, form.title, form.pub_date,
                              form.category, form.is_published)]
       ELSE UNCHANGED posts
    /\ UNCHANGED <<users, categories, comments, post_seq, comment_seq,
                   now, boot, pg, orphaned>>

PostDeleteResponse(user, method, post_pk) ==
    LET req == Request("PostDeleteView", method, user, post_pk, 0, "", NoPage)
        d == PostOwnerDispatch(user, post_pk)
    IN IF d # "handle" THEN PostOwnerRefusal(req, d)
       ELSE IF method = "GET" THEN Ok(req)
       ELSE Redirect(req, ProfileUrl(user))

PostDeleteView(user, method, post_pk) ==
    /\ resp' = PostDeleteResponse(user, method, post_pk)
    /\ IF PostOwnerDispatch(user, post_pk) = "handle" /\ method = "POST"
       THEN /\ posts' = [pk \in DOMAIN posts \ {post_pk} |-> posts[pk]]
            /\ comments' = CascadeComments(post_pk)
            /\ orphaned' = orphaned \ {post_pk}
       ELSE UNCHANGED <<posts, comments, orphaned>>
    /\ UNCHANGED <<users, categories, post_seq, comment_seq, now, boot, pg>>

(***************************************************************************)
(* Profile edit (blog/views.py).                                           *)
(***************************************************************************)
\* ProfileUpdateView.dispatch: the object is looked up and compared with
\* the caller before LoginRequiredMixin.
ProfileUpdateDispatch(user, username) ==
    IF username \notin DOMAIN users THEN "404"
    ELSE IF username # user THEN "redirect"
    ELSE IF ~is_authenticated(user) THEN "login"
    ELSE "handle"

ProfileUpdateResponse(user, method, username) ==
    LET req == Request("ProfileUpdateView", method, user, 0, 0, username, NoPage)
        d == ProfileUpdateDispatch(user, username)
    IN IF d = "404" THEN NotFound(req)
       ELSE IF d = "redirect" THEN Redirect(req, ProfileUrl(username))
       ELSE IF d = "login" THEN Redirect(req, LoginUrl)
       ELSE IF method = "GET" THEN Ok(req)
       ELSE Redirect(req, ProfileUrl(username))

ProfileUpdateView(user, method, username, form) ==
    /\ resp' = ProfileUpdateResponse(user, method, username)
    /\ IF ProfileUpdateDispatch(user, username) = "handle" /\ method = "POST"
       THEN users' = [users EXCEPT ![username].first_name = form]
       ELSE UNCHANGED users
    /\ UNCHANGED <<categories, posts, comments, post_seq, comment_seq,
                   now, boot, pg, orphaned>>

(***************************************************************************)
(* Comment mutations (blog/views.py).                                      *)
(***************************************************************************)
\* Faulty variant of PublishedPostFound: the post is looked up among all posts.
PublishedPostFoundAmongAll(post_pk) == post_pk \in PostsFkJoined

\* get_object_or_404(Post.published_posts_query.all(), pk=post_pk).
PublishedPostFound(post_pk) == post_pk \in PublishedPosts(now)

\* Faulty variant of OwnCommentFound: the author filter is left out.
OwnCommentFoundAnyAuthor(user, comment_pk) == comment_pk \in DOMAIN comments

\* get_object_or_404(Comment, pk=comment_pk, author=request.user).
OwnCommentFound(user, comment_pk) ==
    /\ comment_pk \in DOMAIN comments
    /\ comments[comment_pk].author = user

\* CommentCreateView.dispatch.
CommentCreateDispatch(user, post_pk) ==
    IF ~is_authenticated(user) THEN "login"
    ELSE IF ~PublishedPostFound(post_pk) THEN "404"
    ELSE "handle"

\* CommentUpdateView.dispatch / CommentDeleteView.dispatch: the post of the
\* URL and the comment of the URL are looked up one after the other.
CommentOwnerDispatch(user, post_pk, comment_pk) ==
    IF ~is_authenticated(user) THEN "login"
    ELSE IF ~PublishedPostFound(post_pk) THEN "404"
    ELSE IF ~OwnCommentFound(user, comment_pk) THEN "404"
    ELSE "handle"

CommentRefusal(req, d) ==
    IF d = "login" THEN Redirect(req, LoginUrl) ELSE NotFound(req)

CommentCreateResponse(user, method, post_pk) ==
    LET req == Request("CommentCreateView", method, user, post_pk, 0, "", NoPage)
        d == CommentCreateDispatch(user, post_pk)
    IN IF d # "handle" THEN CommentRefusal(req, d)
       ELSE IF method = "GET" THEN Ok(req)
       ELSE Redirect(req, PostDetailUrl(post_pk))

CommentCreateView(user, method, post_pk, form) ==
    /\ comment_seq < MaxComments
    /\ resp' = CommentCreateResponse(user, method, post_pk)
    /\ IF CommentCreateDispatch(user, post_pk) = "handle" /\ method = "POST"
       THEN /\ comment_seq' = comment_seq + 1
            /\ comments' = (comment_seq + 1 :> Comment(post_pk, user, form))
                           @@ comments
       ELSE UNCHANGED <<comments, comment_seq>>
    /\ UNCHANGED <<users, categories, posts, post_seq, now, boot, pg, orphaned>>

\* The success URL is the comment's own post (Comment.get_absolute_url).
CommentUpdateResponse(user, method, post_pk, comment_pk) ==
    LET req == Request("CommentUpdateView", method, user, post_pk, comment_pk,
                       "", NoPage)
        d == CommentOwnerDispatch(user, post_pk, comment_pk)
    IN IF d # "handle" THEN CommentRefusal(req, d)
       ELSE IF method = "GET" THEN Ok(req)
       ELSE Redirect(req, PostDetailUrl(comments[comment_pk].post))

CommentUpdateView(user, method, post_pk, comment_pk, form) ==
    /\ resp' = CommentUpdateResponse(user, method, post_pk, comment_pk)
    /\ IF CommentOwnerDispatch(user, post_pk, comment_pk) = "handle"
          /\ method = "POST"
       THEN comments' = [comments EXCEPT ![comment_pk].text = form]
       ELSE UNCHANGED comments
    /\ UNCHANGED <<users, categories, posts, post_seq, comment_seq,
                   now, boot, pg, orphaned>>

\* The success URL is the post of the URL (self.post_obj.pk).
CommentDeleteResponse(user, method, post_pk, comment_pk) ==
    LET req == Request("CommentDeleteView", method, user, post_pk, comment_pk,
                       "", NoPage)
        d == CommentOwnerDispatch(user, post_pk, comment_pk)
    IN IF d # "handle" THEN CommentRefusal(req, d)
       ELSE IF method = "GET" THEN Ok(req)
       ELSE Redirect(req, PostDetailUrl(post_pk))

CommentDeleteView(user, method, post_pk, comment_pk) ==
    /\ resp' = CommentDeleteResponse(user, method, post_pk, comment_pk)
    /\ IF CommentOwnerDispatch(user, post_pk, comment_pk) = "handle"
          /\ method = "POST"
       THEN comments' = [c \in DOMAIN comments \ {comment_pk} |-> comments[c]]
       ELSE UNCHANGED comments
    /\ UNCHANGED <<users, categories, posts, post_seq, comment_seq,
                   now, boot, pg, orphaned>>

(***************************************************************************)
(* Administration (blog/admin.py) and the environment.                     *)
(***************************************************************************)
AdminRequest(view, name, post_pk) ==
    Ok(Request(view, "POST", "admin", post_pk, 0, name, NoPage))

\* CategoryAdmin: add a category.
CategoryAdminAdd(slug, is_published) ==
    /\ slug \notin DOMAIN categories
    /\ categories' = (slug :> Category(is_published)) @@ categories
    /\ resp' = AdminRequest("CategoryAdmin.add", slug, 0)
    /\ UNCHANGED <<users, posts, comments, post_seq, comment_seq, now, boot, pg, orphaned>>

\* CategoryAdmin.list_editable: is_published.
CategoryAdminChange(slug, is_published) ==
    /\ slug \in DOMAIN categories
    /\ categories' = [categories EXCEPT ![slug].is_published = is_published]
    /\ resp' = AdminRequest("CategoryAdmin.change", slug, 0)
    /\ UNCHANGED <<users, posts, comments, post_seq, comment_seq, now, boot, pg, orphaned>>

\* CategoryAdmin: delete a category; Post.category is SET_NULL.
CategoryAdminDelete(slug) ==
    /\ slug \in DOMAIN categories
    /\ categories' = [s \in DOMAIN categories \ {slug} |-> categories[s]]
    /\ posts' = SetNullCategory(slug)
    /\ orphaned' = orphaned \cup {pk \in DOMAIN posts : posts[pk].category = slug}
    /\ resp' = AdminRequest("CategoryAdmin.delete", slug, 0)
    /\ UNCHANGED <<users, comments, post_seq, comment_seq, now, boot, pg>>

\* PostAdmin.list_editable: is_published and category.
PostAdminChange(post_pk, is_published, category) ==
    /\ post_pk \in DOMAIN posts
    /\ category \in DOMAIN categories
    /\ posts' = [posts EXCEPT ![post_pk].is_published = is_published,
                              ![post_pk].category = category]
    /\ resp' = AdminRequest("PostAdmin.change", "", post_pk)
    /\ UNCHANGED <<users, categories, comments, post_seq, comment_seq,
                   now, boot, pg, orphaned>>

\* timezone.now() advances.
Tick ==
    /\ now < MaxTime
    /\ now' = now + 1
    /\ UNCHANGED <<db, boot, resp, pg, orphaned>>

\* The server process starts again: blog/views.py is imported and the class
\* body of PostListView takes timezone.now() anew.
ImportViews ==
    /\ boot # now
    /\ boot' = now
    /\ UNCHANGED <<db, now, resp, pg, orphaned>>

(***************************************************************************)
(* The pagination helpers on their own: any number of items, any page size *)
(* and any page parameter.                                                 *)
(***************************************************************************)
Pages == {NoPage, <<"junk", 0>>, <<"last", 0>>} \cup {<<"int", n>> : n \in -1..(MaxItems + 1)}

Items(count) == [i \in 1..count |-> i]

NoPagination == [count |-> 0, per_page |-> PAGINATE_VALUE, page |-> NoPage]

\* CategoryDetailView / ProfileDetailView: page_obj = paginate(...).
PaginateListing(view) ==
    LET req == Request(view, "GET", ANON, 0, 0, "", pg.page)
        p == paginate(pg.page, Items(pg.count), pg.per_page)
    IN /\ resp' = Response(req, p.status, NoLocation, 0, <<>>,
                           Items(pg.count), p.items)
       /\ UNCHANGED <<db, env, orphaned>>

\* PostListView: paginate_by.
PaginateIndex ==
    LET req == Request("PostListView", "GET", ANON, 0, 0, "", pg.page)
        p == ListViewPaginate(pg.page, Items(pg.count), pg.per_page)
    IN /\ resp' = Response(req, p.status, NoLocation, 0, <<>>,
                           Items(pg.count), p.items)
       /\ UNCHANGED <<db, env, orphaned>>

(***************************************************************************)
(* Specifications.                                                         *)
(***************************************************************************)
InitDb ==
    /\ users = [u \in Users |-> [first_name |-> 0]]
    /\ categories = [s \in {} |-> Category(TRUE)]
    /\ posts = [pk \in {} |-> Post("u1", 1, 0, NULL, TRUE)]
    /\ comments = [c \in {} |-> Comment(1, "u1", 0)]
    /\ post_seq = 0
    /\ comment_seq = 0
    /\ now = 1
    /\ boot = 1
    /\ resp = Ok(NoRequest)
    /\ orphaned = {}

Init ==
    /\ InitDb
    /\ pg = NoPagination

(***************************************************************************)
(* The handlers are checked in groups, each group a specification of its   *)
(* own over the same actions, with the submitted data drawn from the       *)
(* values the group's behaviour depends on.                                *)
(***************************************************************************)
\* The endpoints addressed by a post id, and the profile edit.
AccessForms ==
    {f \in PostFormData : f.title = 1 /\ f.category = "c1" /\ f.pub_date = 1}

Next ==
    \/ \E u \in Viewers, pk \in PostPks : PostDetailView(u, pk)
    \/ \E u \in Viewers, m \in Methods, f \in AccessForms : PostCreateView(u, m, f)
    \/ \E u \in Viewers, m \in Methods, pk \in PostPks, f \in AccessForms :
          PostUpdateView(u, m, pk, f)
    \/ \E u \in Viewers, m \in Methods, pk \in PostPks : PostDeleteView(u, m, pk)
    \/ \E u \in Viewers, m \in Methods, n \in Usernames :
          ProfileUpdateView(u, m, n, 1)
    \/ \E u \in Viewers, m \in Methods, pk \in PostPks :
          comment_seq < 1 /\ CommentCreateView(u, m, pk, 0)
    \/ \E u \in Viewers, m \in Methods, pk \in PostPks :
          CommentUpdateView(u, m, pk, 1, 1)
    \/ \E u \in Viewers, m \in Methods, pk \in PostPks :
          CommentDeleteView(u, m, pk, 1)
    \/ CategoryAdminAdd("c1", TRUE)
    \/ Tick

Spec == Init /\ [][Next]_vars

\* The comment endpoints, with posts that the administration publishes
\* and withdraws.
CommentsForms ==
    {f \in PostFormData : f.title = 1 /\ f.category = "c1" /\ f.pub_date = 0}

NextComments ==
    \/ \E u \in Users, f \in CommentsForms : PostCreateView(u, "POST", f)
    \/ \E pk \in PostPks, b \in BOOLEAN : PostAdminChange(pk, b, "c1")
    \/ \E u \in Viewers, m \in Methods, pk \in PostPks :
          CommentCreateView(u, m, pk, 0)
    \/ \E u \in Viewers, m \in Methods, pk \in PostPks, c \in CommentPks :
          CommentUpdateView(u, m, pk, c, 1)
    \/ \E u \in Viewers, m \in Methods, pk \in PostPks, c \in CommentPks :
          CommentDeleteView(u, m, pk, c)
    \/ CategoryAdminAdd("c1", TRUE)

SpecComments == Init /\ [][NextComments]_vars

\* The listings.
ListingForms == {f \in PostFormData : f.pub_date \in {0, 1} /\ f.is_published}

NextListing ==
    \/ \E u \in Viewers : PostListView(u, NoPage)
    \/ \E u \in Viewers, s \in Slugs : CategoryDetailView(u, s, NoPage)
    \/ \E u \in Viewers, n \in Usernames : ProfileDetailView(u, n, NoPage)
    \/ \E u \in Users, f \in ListingForms : PostCreateView(u, "POST", f)
    \/ \E s \in Slugs, b \in BOOLEAN : CategoryAdminAdd(s, b)
    \/ Tick
    \/ ImportViews

SpecListing == Init /\ [][NextListing]_vars

\* The deletion of a category and what the views serve afterwards.
CategoryForms ==
    {f \in PostFormData : f.title = 1 /\ f.category = "c1" /\ f.pub_date = 0}

NextCategory ==
    \/ \E u \in Viewers : PostListView(u, NoPage)
    \/ \E u \in Viewers, pk \in PostPks : PostDetailView(u, pk)
    \/ \E u \in Viewers : CategoryDetailView(u, "c1", NoPage)
    \/ \E u \in Viewers, n \in Users : ProfileDetailView(u, n, NoPage)
    \/ \E u \in Users, f \in CategoryForms : PostCreateView(u, "POST", f)
    \/ \E u \in Users, pk \in PostPks :
          comment_seq < 1 /\ CommentCreateView(u, "POST", pk, 0)
    \/ \E b \in BOOLEAN : CategoryAdminAdd("c1", b)
    \/ \E b \in BOOLEAN : CategoryAdminChange("c1", b)
    \/ CategoryAdminDelete("c1")
    \/ \E pk \in PostPks, b \in BOOLEAN : PostAdminChange(pk, b, "c1")

SpecCategory == Init /\ [][NextCategory]_vars

InitPaginate ==
    /\ InitDb
    /\ pg \in [count : 0..MaxItems, per_page : 1..MaxPerPage, page : Pages]

NextPaginate ==
    \/ PaginateListing("CategoryDetailView")
    \/ PaginateListing("ProfileDetailView")
    \/ PaginateIndex

SpecPaginate == InitPaginate /\ [][NextPaginate]_vars

(***************************************************************************)
(* The specification's predicates, as the specification words them.        *)
(***************************************************************************)
\* "published AND category.published AND pub_date <= now()"; a post with no
\* category counts as in an unpublished category.
PubliclyVisible(pk) ==
    /\ pk \in DOMAIN posts
    /\ posts[pk].is_published
    /\ posts[pk].category \in DOMAIN categories
    /\ categories[posts[pk].category].is_published
    /\ posts[pk].pub_date <= now

\* is_visible(post, viewer).
IsVisible(pk, viewer) == posts[pk].author = viewer \/ PubliclyVisible(pk)

\* Published, in a published category, and dated before the current time.
PublicBeforeNow(pk) == PubliclyVisible(pk) /\ posts[pk].pub_date < now

\* A step that serves a request to the view: the clock and the import
\* instant stand still and the response is the view's.
Serves(view) == now' = now /\ boot' = boot /\ resp'.req.view = view

Served(view) == resp.req.view = view

ListedPks(r) == {r.object_list[i].pk : i \in 1..Len(r.object_list)}

ServedPks(r) == {r.page[i].pk : i \in 1..Len(r.page)}

MutationViews ==
    {"PostCreateView", "PostUpdateView", "PostDeleteView", "CommentCreateView",
     "CommentUpdateView", "CommentDeleteView", "ProfileUpdateView"}

\* What the caller sees of a response.
Answer(r) == <<r.status, r.location, r.object, r.comments>>

\* The posts hidden from viewer v: not v's own and not publicly visible.
HiddenFrom(v) ==
    {p \in DOMAIN posts : posts[p].author # v /\ ~PubliclyVisible(p)}

AbsentPks == PostPks \ DOMAIN posts

\* The number of comments of post pk among the comments cs.
CountIn(cs, pk) == Cardinality({k \in DOMAIN cs : cs[k].post = pk})

(***************************************************************************)
(* C1. A post-detail request returns the post to its author always, and to *)
(* any other viewer exactly when the post is published, its category is    *)
(* published and its publication timestamp is at or before the current     *)
(* time; otherwise the answer is 'not found'.                              *)
(* The code filters pub_date__lt=now: a post dated exactly now is refused. *)
(***************************************************************************)
C1_DetailReturnsExactlyVisible ==
    [][ (Serves("PostDetailView") /\ resp'.req.post_pk \in DOMAIN posts) =>
          LET pk == resp'.req.post_pk
              v == resp'.req.user
          IN IF IsVisible(pk, v)
             THEN resp'.status = 200 /\ resp'.object = pk
             ELSE resp'.status = 404 ]_vars

(***************************************************************************)
(* C3. Through the post edit and post delete endpoints a post is modified  *)
(* or deleted only by a request of its author; a request for an existing   *)
(* post by any other viewer leaves every post and comment unchanged and is *)
(* answered with a redirect to that post's detail page.                    *)
(***************************************************************************)
C3_OnlyAuthorEditsOrDeletes ==
    [][ (Serves("PostUpdateView") \/ Serves("PostDeleteView")) =>
          LET pk == resp'.req.post_pk
              v == resp'.req.user
          IN /\ \A p \in DOMAIN posts :
                   (p \notin DOMAIN posts' \/ posts'[p] # posts[p]) =>
                       (p = pk /\ posts[p].author = v)
             /\ (pk \in DOMAIN posts /\ posts[pk].author # v) =>
                   /\ posts' = posts
                   /\ comments' = comments
                   /\ resp'.status = 302
                   /\ resp'.location = PostDetailUrl(pk) ]_vars

\* A user who is not the author asked to delete a commented post and was
\* sent to its detail page; the post and its comment are still there.
C3_Witness ==
    /\ Served("PostDeleteView")
    /\ resp.req.method = "POST"
    /\ resp.req.user \in Users
    /\ resp.req.post_pk \in DOMAIN posts
    /\ posts[resp.req.post_pk].author # resp.req.user
    /\ resp.status = 302
    /\ resp.location = PostDetailUrl(resp.req.post_pk)
    /\ CommentsCount(resp.req.post_pk) = 1

(***************************************************************************)
(* C5. Every mutation endpoint answers an unauthenticated request with a   *)
(* redirect to the authentication entry point and changes no post, comment *)
(* or user.                                                                *)
(* Checked on the submissions that name an existing post or user.  Post    *)
(* edit, post delete and profile edit look their object up and compare it  *)
(* with the caller before LoginRequiredMixin runs.                         *)
(***************************************************************************)
C5_AnonymousSentToLogin ==
    [][ (now' = now /\ boot' = boot /\ resp'.req.view \in MutationViews
         /\ resp'.req.user = ANON /\ resp'.req.method = "POST"
         /\ resp'.req.post_pk \in DOMAIN posts \cup {0}
         /\ resp'.req.name \in DOMAIN users \cup {""}) =>
          /\ resp'.status = 302
          /\ resp'.location = LoginUrl
          /\ db' = db ]_vars

(***************************************************************************)
(* C9. To a viewer who is not its author, a post that fails the public     *)
(* visibility predicate answers like an absent one.  As amended: on post   *)
(* detail both are 'not found'; on comment create, edit and delete both    *)
(* are 'not found' for an authenticated viewer and both are the redirect   *)
(* to the login page for an anonymous one; on post edit and post delete    *)
(* the hidden post answers with a redirect to its own detail page and the  *)
(* absent one with 'not found'.                                            *)
(***************************************************************************)
C9_HiddenAnswersAsAmended ==
    \A v \in Viewers : \A p \in HiddenFrom(v) : \A q \in AbsentPks :
        /\ PostDetailResponse(v, p).status = 404
        /\ Answer(PostDetailResponse(v, p)) = Answer(PostDetailResponse(v, q))
        /\ \A m \in Methods :
              LET same(a, b) ==
                     /\ Answer(a) = Answer(b)
                     /\ IF v = ANON
                        THEN a.status = 302 /\ a.location = LoginUrl
                        ELSE a.status = 404
              IN /\ same(CommentCreateResponse(v, m, p),
                         CommentCreateResponse(v, m, q))
                 /\ \A c \in CommentPks :
                       /\ same(CommentUpdateResponse(v, m, p, c),
                               CommentUpdateResponse(v, m, q, c))
                       /\ same(CommentDeleteResponse(v, m, p, c),
                               CommentDeleteResponse(v, m, q, c))
        /\ \A m \in Methods :
              /\ PostDeleteResponse(v, m, p).status = 302
              /\ PostDeleteResponse(v, m, p).location = PostDetailUrl(p)
              /\ PostDeleteResponse(v, m, q).status = 404
              /\ \A f \in AccessForms :
                    /\ PostUpdateResponse(v, m, p, f).status = 302
                    /\ PostUpdateResponse(v, m, p, f).location = PostDetailUrl(p)
                    /\ PostUpdateResponse(v, m, q, f).status = 404

\* An authenticated viewer asked to comment on another user's hidden post
\* and got 'not found', while another post id names no post.
C9_Witness ==
    /\ Served("CommentCreateView")
    /\ resp.req.user \in Users
    /\ resp.req.post_pk \in HiddenFrom(resp.req.user)
    /\ resp.status = 404
    /\ AbsentPks # {}

\* The claim as written: every endpoint addressed by a post id answers
\* 'not found' for the hidden post, as it does for the absent one.
C9_HiddenIsNotFoundEverywhere ==
    \A v \in Viewers : \A p \in HiddenFrom(v) : \A q \in AbsentPks :
        \A m \in Methods, c \in CommentPks, f \in AccessForms :
            /\ PostDetailResponse(v, p).status = 404
            /\ PostUpdateResponse(v, m, p, f).status = 404
            /\ PostDeleteResponse(v, m, p).status = 404
            /\ CommentCreateResponse(v, m, p).status = 404
            /\ CommentUpdateResponse(v, m, p, c).status = 404
            /\ CommentDeleteResponse(v, m, p, c).status = 404
            /\ Answer(PostUpdateResponse(v, m, p, f))
                   = Answer(PostUpdateResponse(v, m, q, f))
            /\ Answer(PostDeleteResponse(v, m, p))
                   = Answer(PostDeleteResponse(v, m, q))

(***************************************************************************)
(* C4. A delete request for comment C on post P by a viewer who is not C's *)
(* author is rejected and leaves every comment in place.  As amended: a    *)
(* delete request by C's author removes exactly C, takes one from P's      *)
(* comment count and leaves every other post's count alone when the post   *)
(* named in the request is published, in a published category and dated    *)
(* before the current time; when the post named in the request fails the   *)
(* public visibility predicate the request is answered 'not found' and     *)
(* every comment stays in place.                                           *)
(***************************************************************************)
C4_CommentDeleteAsAmended ==
    [][ (Serves("CommentDeleteView") /\ resp'.req.method = "POST"
         /\ resp'.req.user \in Users
         /\ resp'.req.comment_pk \in DOMAIN comments) =>
          LET c == resp'.req.comment_pk
              v == resp'.req.user
              url_pk == resp'.req.post_pk
              P == comments[c].post
          IN /\ comments[c].author # v =>
                   comments' = comments /\ resp'.status = 404
             /\ (comments[c].author = v /\ ~PubliclyVisible(url_pk)) =>
                   comments' = comments /\ resp'.status = 404
             /\ (comments[c].author = v /\ PublicBeforeNow(url_pk)) =>
                   /\ DOMAIN comments' = DOMAIN comments \ {c}
                   /\ \A k \in DOMAIN comments' : comments'[k] = comments[k]
                   /\ CountIn(comments', P) = CountIn(comments, P) - 1
                   /\ \A q \in DOMAIN posts \ {P} :
                         CountIn(comments', q) = CountIn(comments, q)
                   /\ resp'.status = 302 ]_vars

\* Both comments were written, the author of one deleted it, the other one
\* is still there.
C4_Witness ==
    /\ Served("CommentDeleteView")
    /\ resp.req.method = "POST"
    /\ resp.status = 302
    /\ comment_seq = 2
    /\ resp.req.comment_pk \notin DOMAIN comments
    /\ Cardinality(DOMAIN comments) = 1

\* The claim as written: the author's delete request for C, addressed to
\* C's own post, succeeds in every reachable state.
C4_AuthorAlwaysDeletes ==
    [][ (Serves("CommentDeleteView") /\ resp'.req.method = "POST"
         /\ resp'.req.user \in Users
         /\ resp'.req.comment_pk \in DOMAIN comments
         /\ comments[resp'.req.comment_pk].post = resp'.req.post_pk) =>
          LET c == resp'.req.comment_pk
              P == comments[c].post
          IN IF comments[c].author # resp'.req.user
             THEN comments' = comments
             ELSE /\ DOMAIN comments' = DOMAIN comments \ {c}
                  /\ CountIn(comments', P) = CountIn(comments, P) - 1 ]_vars

(***************************************************************************)
(* C10. A comment edit or delete request addressed by (post_pk,            *)
(* comment_pk) changes comment comment_pk only if that comment belongs to  *)
(* post post_pk.                                                           *)
(* The code looks the post and the comment up independently of each other. *)
(***************************************************************************)
C10_CommentBelongsToUrlPost ==
    [][ ((Serves("CommentUpdateView") \/ Serves("CommentDeleteView"))
         /\ comments' # comments) =>
          /\ resp'.req.comment_pk \in DOMAIN comments
          /\ comments[resp'.req.comment_pk].post = resp'.req.post_pk ]_vars

(***************************************************************************)
(* C6. Deleting a category deletes no post: every post that referenced it  *)
(* is still there with its category null and its other fields and comments *)
(* unchanged.  As amended: for as long as its category is null, such a     *)
(* post is never returned to a viewer other than its author by the detail  *)
(* view, the global index, a category listing or a profile listing, while  *)
(* its author retrieves it through the detail view and their own profile.  *)
(***************************************************************************)
C6_CategoryDeletionAsAmended ==
    [][ (now' = now /\ boot' = boot) =>
          /\ resp'.req.view = "CategoryAdmin.delete" =>
                /\ DOMAIN posts' = DOMAIN posts
                /\ \A pk \in DOMAIN posts :
                      posts'[pk] = IF posts[pk].category = resp'.req.name
                                   THEN [posts[pk] EXCEPT !.category = NULL]
                                   ELSE posts[pk]
                /\ comments' = comments
          /\ \A pk \in orphaned' :
                posts'[pk].category = NULL =>
                   IF resp'.req.user # posts'[pk].author
                   THEN /\ resp'.object # pk
                        /\ pk \notin ListedPks(resp')
                        /\ pk \notin ServedPks(resp')
                   ELSE /\ (resp'.req.view = "PostDetailView"
                            /\ resp'.req.post_pk = pk) =>
                              resp'.status = 200 /\ resp'.object = pk
                        /\ (resp'.req.view = "ProfileDetailView"
                            /\ resp'.req.name = posts'[pk].author) =>
                              pk \in ListedPks(resp') ]_vars

\* A commented post lost its category, and another user who asked for its
\* detail page got 'not found'.
C6_Witness ==
    \E pk \in orphaned :
        /\ posts[pk].category = NULL
        /\ posts[pk].is_published
        /\ CommentsCount(pk) = 1
        /\ Served("PostDetailView")
        /\ resp.req.post_pk = pk
        /\ resp.req.user \in Users \ {posts[pk].author}
        /\ resp.status = 404

\* The claim as written: in every state after the deletion the post is
\* never returned to a viewer other than its author.
C6_NeverReturnedAfterDeletion ==
    [][ (now' = now /\ boot' = boot) =>
          \A pk \in orphaned' :
              resp'.req.user # posts'[pk].author =>
                  /\ resp'.object # pk
                  /\ pk \notin ListedPks(resp')
                  /\ pk \notin ServedPks(resp') ]_vars

(***************************************************************************)
(* C2. Every listing (global index, by category, by author) returns        *)
(* exactly the posts of its scope that are visible to the viewer: the      *)
(* viewer's own posts whatever their state, and the publicly visible posts *)
(* of others.                                                              *)
(* The index holds the import-time cutoff; the index and the category      *)
(* listing make no exception for the viewer's own posts; the filter is     *)
(* strict.                                                                 *)
(***************************************************************************)
C2_ListingsReturnExactlyVisible ==
    [][ (now' = now /\ boot' = boot) =>
          LET v == resp'.req.user
              name == resp'.req.name
          IN /\ resp'.req.view = "PostListView" =>
                   ListedPks(resp') = {pk \in DOMAIN posts : IsVisible(pk, v)}
             /\ (resp'.req.view = "CategoryDetailView" /\ resp'.status = 200) =>
                   ListedPks(resp') =
                      {pk \in DOMAIN posts :
                          posts[pk].category = name /\ IsVisible(pk, v)}
             /\ (resp'.req.view = "ProfileDetailView" /\ resp'.status = 200) =>
                   ListedPks(resp') =
                      {pk \in DOMAIN posts :
                          posts[pk].author = name /\ IsVisible(pk, v)} ]_vars

(***************************************************************************)
(* C7. In every listing a post with a later publication timestamp comes    *)
(* first, and of two posts with equal timestamps the one with the smaller  *)
(* title comes first.                                                      *)
(* The views order by '-pub_date' alone, which drops Meta.ordering.        *)
(***************************************************************************)
C7_ListingOrder ==
    [][ (now' = now /\ boot' = boot
         /\ resp'.req.view \in
               {"PostListView", "CategoryDetailView", "ProfileDetailView"}) =>
          \A i, j \in 1..Len(resp'.object_list) :
              LET a == posts[resp'.object_list[i].pk]
                  b == posts[resp'.object_list[j].pk]
              IN /\ a.pub_date > b.pub_date => i < j
                 /\ (a.pub_date = b.pub_date /\ a.title < b.title) => i < j ]_vars

\* ceil(N / S), and 1 for no items: the least k >= 1 with k * S >= N.
LastPage(N, S) == CHOOSE k \in 1..(N + 1) : k * S >= N /\ (k = 1 \/ (k - 1) * S < N)

\* The items of page k: the window of S items after the first (k - 1) * S.
Window(N, S, k) ==
    LET first == (k - 1) * S + 1
        last == IF k * S < N THEN k * S ELSE N
    IN [i \in 1..(last - first + 1) |-> first + i - 1]

====
